---- MODULE Spec2Model ----
(***************************************************************************)
(* Fleet logistics core: the Trip / Vehicle / Driver / Maintenance         *)
(* lifecycle of project/core (models.py, Serializers.py, views.py).        *)
(*                                                                         *)
(* Spec      every request handler is one atomic step (requests served one *)
(*           after the other).                                             *)
(* SpecRace  the trip transition handlers are split at their database      *)
(*           statements and run by concurrent workers (no transaction, no  *)
(*           row lock is taken anywhere in the source).                    *)
(***************************************************************************)
EXTENDS Integers, Sequences, FiniteSets

(* ------------------------------ bounds -------------------------------- *)
MaxTrips == 2
MaxMaint == 1
MaxDay   == 2
MaxEdits == 1
MaxOdometer == 2
MaxFuelLogs == 1
MaxExpenses == 1

(* ----------------------------- universe ------------------------------- *)
Vehicles == {"v1", "v2"}
Drivers  == {"d1", "d2"}

VehicleStatus == {"available", "on_trip", "in_shop", "retired"}
DriverStatus  == {"off_duty", "on_duty", "suspended"}
TripStatus    == {"draft", "dispatched", "completed", "cancelled"}
MaintStatus   == {"pending", "in_progress", "completed"}

\* DecimalField values: no sign or range validator is attached to either.
Capacities == {-1, 1}
Cargoes    == {0, 1}

\* completed_date = NULL
NoDate == -1
\* Days 1..MaxDay are the server's dates; day 0 is a date before all of them.
\* What a client sends for a date field: nothing, or a date of its own.
ClientDates == {NoDate, 0}
\* pk of an instance that has not been saved yet
NoPk   == 0

VARIABLES vehicles, drivers, trips, maints, today, edits, resp, procs,
          users, profiles, gate, fuel_logs, expenses, calc

db   == <<vehicles, drivers, trips, maints>>
\* The User table, the Driver rows created by registration, the last decision
\* of the permission classes, the FuelLog and Expense tables, and the last
\* evaluation of a derived figure.
aux  == <<users, profiles, gate, fuel_logs, expenses, calc>>
vars == <<vehicles, drivers, trips, maints, today, edits, resp, procs,
          users, profiles, gate, fuel_logs, expenses, calc>>

TripIds  == 1..Len(trips)
MaintIds == 1..Len(maints)

(* --------------------------- model fields ----------------------------- *)
\* Vehicle.status default
VehicleDefault == [status |-> "available", capacity_kg |-> 1, odometer_km |-> 0]
\* Driver.status default; the license is valid through the last day.
DriverDefault  == [status |-> "off_duty", license_expiry |-> MaxDay]

IsLicenseExpired(drv, day) == drv.license_expiry < day

Response(op, id, err) == [op |-> op, id |-> id, err |-> err]

(* ---------------------------- Trip.clean ------------------------------ *)
CargoError(obj, veh) ==
    IF obj.cargo_weight_kg # 0 /\ obj.cargo_weight_kg > veh.capacity_kg
    THEN "CapacityExceeded" ELSE "ok"

\* The driver check without its branch for a suspended driver.
DriverErrorLicenseOnly(obj, drv, day) ==
    IF obj.status \in {"draft", "dispatched"}
    THEN IF IsLicenseExpired(drv, day) THEN "LicenseExpired" ELSE "ok"
    ELSE "ok"

DriverError(obj, drv, day) ==
    IF obj.status \in {"draft", "dispatched"}
    THEN IF IsLicenseExpired(drv, day) THEN "LicenseExpired"
         ELSE IF drv.status = "suspended" THEN "DriverSuspended"
         ELSE "ok"
    ELSE "ok"

\* Trip.objects.filter(vehicle=vehicle, status='dispatched').exclude(pk=self.pk)
ExistingDispatched(v, pk, ts) ==
    {i \in 1..Len(ts) : i # pk /\ ts[i].vehicle = v /\ ts[i].status = "dispatched"}

\* The vehicle check with 'in_shop' missing from the refused statuses.
VehicleErrorRetiredOnly(obj, pk, veh, ts) ==
    IF obj.status = "dispatched"
    THEN IF veh.status = "on_trip" /\ pk # NoPk
         THEN IF ExistingDispatched(obj.vehicle, pk, ts) # {} THEN "VehicleBusy" ELSE "ok"
         ELSE IF veh.status \in {"retired"} THEN "VehicleUnavailable"
         ELSE "ok"
    ELSE "ok"

VehicleError(obj, pk, veh, ts) ==
    IF obj.status = "dispatched"
    THEN IF veh.status = "on_trip" /\ pk # NoPk
         THEN IF ExistingDispatched(obj.vehicle, pk, ts) # {} THEN "VehicleBusy" ELSE "ok"
         ELSE IF veh.status \in {"in_shop", "retired"} THEN "VehicleUnavailable"
         ELSE "ok"
    ELSE "ok"

\* The first ValidationError raised by clean(); veh and drv are the related
\* objects the instance holds, ts the trip table at the time of the query.
TripClean(obj, pk, veh, drv, ts, day) ==
    IF CargoError(obj, veh) # "ok" THEN CargoError(obj, veh)
    ELSE IF DriverError(obj, drv, day) # "ok" THEN DriverError(obj, drv, day)
    ELSE VehicleError(obj, pk, veh, ts)

(* ----------------------------- Trip.save ------------------------------ *)
Locks(obj, old_status) == obj.status = "dispatched" /\ old_status # "dispatched"
\* A release on completion only.
FreesOnCompletedOnly(obj, old_status) == obj.status = "completed" /\ old_status = "dispatched"
\* A release on every completion or cancellation, whatever the old status.
FreesFromAnyStatus(obj, old_status) == obj.status \in {"completed", "cancelled"}
Frees(obj, old_status) == obj.status \in {"completed", "cancelled"} /\ old_status = "dispatched"

\* A save() that stamps completed_date only when none is stored.
StampCompletedIfUnset(obj, old_status, day) ==
    IF Frees(obj, old_status) /\ obj.status = "completed" /\ obj.completed_date = NoDate
    THEN [obj EXCEPT !.completed_date = day] ELSE obj

\* The row as it stands after save(): completed_date is overwritten by the
\* trailing update() on dispatched -> completed.
StampCompleted(obj, old_status, day) ==
    IF Frees(obj, old_status) /\ obj.status = "completed"
    THEN [obj EXCEPT !.completed_date = day] ELSE obj

CascadeVehicle(obj, old_status, vs) ==
    IF Locks(obj, old_status) THEN [vs EXCEPT ![obj.vehicle].status = "on_trip"]
    ELSE IF Frees(obj, old_status) THEN [vs EXCEPT ![obj.vehicle].status = "available"]
    ELSE vs

CascadeDriver(obj, old_status, ds) ==
    IF Locks(obj, old_status) THEN [ds EXCEPT ![obj.driver].status = "on_duty"]
    ELSE IF Frees(obj, old_status) THEN [ds EXCEPT ![obj.driver].status = "off_duty"]
    ELSE ds

OldStatus(pk) == IF pk = NoPk THEN "none" ELSE trips[pk].status

\* full_clean() then the writes of save(), as one step; err is the outcome.
TripSave(obj, pk) ==
    LET err == TripClean(obj, pk, vehicles[obj.vehicle], drivers[obj.driver], trips, today)
        old == OldStatus(pk)
        row == StampCompleted(obj, old, today)
    IN  IF err # "ok"
        THEN UNCHANGED <<vehicles, drivers, trips>>
        ELSE /\ trips' = IF pk = NoPk THEN Append(trips, row) ELSE [trips EXCEPT ![pk] = row]
             /\ vehicles' = CascadeVehicle(obj, old, vehicles)
             /\ drivers'  = CascadeDriver(obj, old, drivers)

TripSaveError(obj, pk) ==
    TripClean(obj, pk, vehicles[obj.vehicle], drivers[obj.driver], trips, today)

(* ------------------- TripViewSet transition actions ------------------- *)
DispatchTrip(t) ==
    /\ t \in TripIds
    /\ UNCHANGED <<maints, today, aux, edits, procs>>
    /\ IF trips[t].status # "draft"
       THEN /\ resp' = Response("dispatch", t, "InvalidTransition")
            /\ UNCHANGED <<vehicles, drivers, trips>>
       ELSE LET obj == [trips[t] EXCEPT !.status = "dispatched"]
            IN  /\ TripSave(obj, t)
                /\ resp' = Response("dispatch", t, TripSaveError(obj, t))

CompleteTrip(t) ==
    /\ t \in TripIds
    /\ UNCHANGED <<maints, today, aux, edits, procs>>
    /\ IF trips[t].status # "dispatched"
       THEN /\ resp' = Response("complete", t, "InvalidTransition")
            /\ UNCHANGED <<vehicles, drivers, trips>>
       ELSE LET obj == [trips[t] EXCEPT !.status = "completed"]
            IN  /\ TripSave(obj, t)
                /\ resp' = Response("complete", t, TripSaveError(obj, t))

CancelTrip(t) ==
    /\ t \in TripIds
    /\ UNCHANGED <<maints, today, aux, edits, procs>>
    /\ IF trips[t].status = "completed"
       THEN /\ resp' = Response("cancel", t, "InvalidTransition")
            /\ UNCHANGED <<vehicles, drivers, trips>>
       ELSE LET obj == [trips[t] EXCEPT !.status = "cancelled"]
            IN  /\ TripSave(obj, t)
                /\ resp' = Response("cancel", t, TripSaveError(obj, t))

(* ------------------- ordinary create / update -------------------------- *)
\* A request that writes client-chosen values into stored fields through the
\* generic create/update endpoints; at most MaxEdits of them per behaviour.
Edit(isEdit) ==
    /\ isEdit => edits < MaxEdits
    /\ edits' = IF isEdit THEN edits + 1 ELSE edits

Get(data, f, default) == IF f \in DOMAIN data THEN data[f] ELSE default

\* ModelSerializer.update: setattr for every validated field
Patched(inst, data) == [f \in DOMAIN inst |-> IF f \in DOMAIN data THEN data[f] ELSE inst[f]]

\* TripDetailSerializer.validate; inst is the instance being updated (on
\* create the data itself carries vehicle and driver).
TripValidate(data, inst) ==
    LET vehicle == vehicles[Get(data, "vehicle", inst.vehicle)]
        driver  == drivers[Get(data, "driver", inst.driver)]
        cargo   == Get(data, "cargo_weight_kg", 0)
        status  == Get(data, "status", "draft")
    IN  IF cargo # 0 /\ cargo > vehicle.capacity_kg THEN "CapacityExceeded"
        ELSE IF status \in {"draft", "dispatched"} /\ IsLicenseExpired(driver, today)
             THEN "LicenseExpired"
        ELSE IF status \in {"draft", "dispatched"} /\ driver.status = "suspended"
             THEN "DriverSuspended"
        ELSE "ok"

\* Every model field is writable through the serializer (fields = '__all__').
TripCreate(v, d, c, s, cd) ==
    LET data == [vehicle |-> v, driver |-> d, cargo_weight_kg |-> c,
                 status |-> s, completed_date |-> cd]
        verr == TripValidate(data, data)
    IN  /\ Len(trips) < MaxTrips
        /\ Edit(s # "draft" \/ cd # NoDate)
        /\ UNCHANGED <<maints, today, aux, procs>>
        /\ IF verr # "ok"
           THEN /\ resp' = Response("trip_create", Len(trips) + 1, verr)
                /\ UNCHANGED <<vehicles, drivers, trips>>
           ELSE /\ TripSave(data, NoPk)
                /\ resp' = Response("trip_create", Len(trips) + 1, TripSaveError(data, NoPk))

TripPatches ==
    {[vehicle |-> v] : v \in Vehicles} \cup {[driver |-> d] : d \in Drivers}
    \cup {[cargo_weight_kg |-> c] : c \in Cargoes}
    \cup {[status |-> s] : s \in TripStatus}
    \cup {[completed_date |-> cd] : cd \in ClientDates}
    \cup {[status |-> s, completed_date |-> cd] : s \in TripStatus, cd \in ClientDates}

TripUpdate(t, data) ==
    LET obj  == Patched(trips[t], data)
        verr == TripValidate(data, trips[t])
    IN  /\ t \in TripIds
        /\ Edit(TRUE)
        /\ UNCHANGED <<maints, today, aux, procs>>
        /\ IF verr # "ok"
           THEN /\ resp' = Response("trip_update", t, verr)
                /\ UNCHANGED <<vehicles, drivers, trips>>
           ELSE /\ TripSave(obj, t)
                /\ resp' = Response("trip_update", t, TripSaveError(obj, t))

VehiclePatches ==
    {[capacity_kg |-> c] : c \in Capacities} \cup {[status |-> s] : s \in VehicleStatus}

\* VehicleDetailSerializer, fields = '__all__'; Vehicle.save() is the default one.
VehicleUpdate(v, data) ==
    /\ Edit(TRUE)
    /\ vehicles' = [vehicles EXCEPT ![v] = Patched(vehicles[v], data)]
    /\ resp' = Response("vehicle_update", v, "ok")
    /\ UNCHANGED <<drivers, trips, maints, today, aux, procs>>

DriverPatches ==
    {[license_expiry |-> e] : e \in {0, MaxDay}} \cup {[status |-> s] : s \in DriverStatus}

DriverUpdate(d, data) ==
    /\ Edit(TRUE)
    /\ drivers' = [drivers EXCEPT ![d] = Patched(drivers[d], data)]
    /\ resp' = Response("driver_update", d, "ok")
    /\ UNCHANGED <<vehicles, trips, maints, today, aux, procs>>

(* ----------------------- vehicle / driver actions --------------------- *)
\* A retire that does not look at the vehicle's status.
RetireAlways(v) ==
    /\ UNCHANGED <<drivers, trips, maints, today, aux, edits, procs>>
    /\ vehicles' = [vehicles EXCEPT ![v].status = "retired"]
    /\ resp' = Response("retire", v, "ok")

Retire(v) ==
    /\ UNCHANGED <<drivers, trips, maints, today, aux, edits, procs>>
    /\ IF vehicles[v].status = "on_trip"
       THEN /\ resp' = Response("retire", v, "VehicleBusy")
            /\ UNCHANGED vehicles
       ELSE /\ vehicles' = [vehicles EXCEPT ![v].status = "retired"]
            /\ resp' = Response("retire", v, "ok")

\* A suspend that does not look at the driver's status.
SuspendAlways(d) ==
    /\ UNCHANGED <<vehicles, trips, maints, today, aux, edits, procs>>
    /\ drivers' = [drivers EXCEPT ![d].status = "suspended"]
    /\ resp' = Response("suspend", d, "ok")

Suspend(d) ==
    /\ UNCHANGED <<vehicles, trips, maints, today, aux, edits, procs>>
    /\ IF drivers[d].status = "on_duty"
       THEN /\ resp' = Response("suspend", d, "DriverBusy")
            /\ UNCHANGED drivers
       ELSE /\ drivers' = [drivers EXCEPT ![d].status = "suspended"]
            /\ resp' = Response("suspend", d, "ok")

Reinstate(d) ==
    /\ drivers' = [drivers EXCEPT ![d].status = "off_duty"]
    /\ resp' = Response("reinstate", d, "ok")
    /\ UNCHANGED <<vehicles, trips, maints, today, aux, edits, procs>>

(* --------------------------- Maintenance.save ------------------------- *)
MaintOldStatus(pk) == IF pk = NoPk THEN "none" ELSE maints[pk].status

\* A completion that stamps the date whether or not one is stored.
MaintStampAlways(obj, old_status, day) ==
    IF obj.status = "completed" /\ old_status # "completed"
    THEN [obj EXCEPT !.completed_date = day] ELSE obj

MaintStamp(obj, old_status, day) ==
    IF obj.status = "completed" /\ old_status # "completed" /\ obj.completed_date = NoDate
    THEN [obj EXCEPT !.completed_date = day] ELSE obj

\* A creation that sends only an available vehicle to the shop.
MaintCascadeIfAvailable(obj, old_status, vs) ==
    IF old_status = "none" /\ obj.status \in {"pending", "in_progress"}
    THEN IF vs[obj.vehicle].status = "available"
         THEN [vs EXCEPT ![obj.vehicle].status = "in_shop"] ELSE vs
    ELSE IF obj.status = "completed" /\ old_status # "completed"
    THEN [vs EXCEPT ![obj.vehicle].status = "available"]
    ELSE vs

\* A completion that returns the vehicle to the fleet every time.
MaintCascadeOnEveryCompletion(obj, old_status, vs) ==
    IF old_status = "none" /\ obj.status \in {"pending", "in_progress"}
    THEN [vs EXCEPT ![obj.vehicle].status = "in_shop"]
    ELSE IF obj.status = "completed"
    THEN [vs EXCEPT ![obj.vehicle].status = "available"]
    ELSE vs

MaintCascade(obj, old_status, vs) ==
    IF old_status = "none" /\ obj.status \in {"pending", "in_progress"}
    THEN [vs EXCEPT ![obj.vehicle].status = "in_shop"]
    ELSE IF obj.status = "completed" /\ old_status # "completed"
    THEN [vs EXCEPT ![obj.vehicle].status = "available"]
    ELSE vs

MaintenanceSave(obj, pk) ==
    LET old == MaintOldStatus(pk)
        row == MaintStamp(obj, old, today)
    IN  /\ maints' = IF pk = NoPk THEN Append(maints, row) ELSE [maints EXCEPT ![pk] = row]
        /\ vehicles' = MaintCascade(obj, old, vehicles)

MaintenanceCreate(v, s, cd) ==
    /\ Len(maints) < MaxMaint
    /\ Edit(s = "completed" \/ cd # NoDate)
    /\ MaintenanceSave([vehicle |-> v, status |-> s, completed_date |-> cd], NoPk)
    /\ resp' = Response("maint_create", Len(maints) + 1, "ok")
    /\ UNCHANGED <<drivers, trips, today, aux, procs>>

MaintPatches ==
    {[vehicle |-> v] : v \in Vehicles} \cup {[status |-> s] : s \in MaintStatus}
    \cup {[completed_date |-> cd] : cd \in ClientDates}

MaintenanceUpdate(m, data) ==
    /\ m \in MaintIds
    /\ Edit(TRUE)
    /\ MaintenanceSave(Patched(maints[m], data), m)
    /\ resp' = Response("maint_update", m, "ok")
    /\ UNCHANGED <<drivers, trips, today, aux, procs>>

MaintenanceComplete(m) ==
    /\ m \in MaintIds
    /\ MaintenanceSave([maints[m] EXCEPT !.status = "completed"], m)
    /\ resp' = Response("maint_complete", m, "ok")
    /\ UNCHANGED <<drivers, trips, today, aux, edits, procs>>

\* timezone.now().date() moves on
Tick ==
    /\ today < MaxDay
    /\ today' = today + 1
    /\ resp' = Response("tick", 0, "ok")
    /\ UNCHANGED <<vehicles, drivers, trips, maints, aux, edits, procs>>

(* ---------------- concurrent workers: the handlers by statement -------- *)
\* Two requests in flight at once (one per worker process or thread).
Workers == {"w1", "w2"}

IdleProc == [pc |-> "idle", op |-> "none", pk |-> NoPk, old_status |-> "none",
             result |-> "none",
             obj |-> [vehicle |-> "v1", driver |-> "d1", cargo_weight_kg |-> 0,
                      status |-> "draft", completed_date |-> NoDate],
             veh |-> VehicleDefault, drv |-> DriverDefault]

TransitionOps == {"dispatch", "complete", "cancel"}

\* The view's guard on the loaded instance, and the status it then sets.
Illegal(op, status) ==
    CASE op = "dispatch" -> status # "draft"
      [] op = "complete" -> status # "dispatched"
      [] op = "cancel"   -> status = "completed"

Target(op) ==
    CASE op = "dispatch" -> "dispatched"
      [] op = "complete" -> "completed"
      [] op = "cancel"   -> "cancelled"

\* self.get_object(): the row with its vehicle and driver (select_related)
GetObject(w, op, t) ==
    /\ procs[w].pc = "idle"
    /\ t \in TripIds
    /\ procs' = [procs EXCEPT ![w] =
                    [IdleProc EXCEPT !.pc = "loaded", !.op = op, !.pk = t,
                                     !.obj = trips[t],
                                     !.veh = vehicles[trips[t].vehicle],
                                     !.drv = drivers[trips[t].driver]]]
    /\ UNCHANGED <<vehicles, drivers, trips, maints, today, aux, edits, resp>>

\* the status guard, trip.status = ..., and full_clean() inside save()
FullClean(w) ==
    LET p   == procs[w]
        obj == [p.obj EXCEPT !.status = Target(p.op)]
        err == TripClean(obj, p.pk, p.veh, p.drv, trips, today)
    IN  /\ p.pc = "loaded"
        /\ procs' = [procs EXCEPT ![w] =
              IF Illegal(p.op, p.obj.status)
              THEN [p EXCEPT !.pc = "done", !.result = "InvalidTransition"]
              ELSE IF err # "ok" THEN [p EXCEPT !.pc = "done", !.result = err]
              ELSE [p EXCEPT !.pc = "cleaned", !.obj = obj]]
        /\ UNCHANGED <<vehicles, drivers, trips, maints, today, aux, edits, resp>>

\* old = Trip.objects.get(pk=self.pk)
ReadOld(w) ==
    /\ procs[w].pc = "cleaned"
    /\ procs' = [procs EXCEPT ![w].pc = "read", ![w].old_status = trips[procs[w].pk].status]
    /\ UNCHANGED <<vehicles, drivers, trips, maints, today, aux, edits, resp>>

\* super().save(): UPDATE of the whole row from the instance
WriteTrip(w) ==
    LET p == procs[w]
    IN  /\ p.pc = "read"
        /\ trips' = [trips EXCEPT ![p.pk] = p.obj]
        /\ procs' = [procs EXCEPT ![w] =
              IF Locks(p.obj, p.old_status) \/ Frees(p.obj, p.old_status)
              THEN [p EXCEPT !.pc = "saved"]
              ELSE [p EXCEPT !.pc = "done", !.result = "ok"]]
        /\ UNCHANGED <<vehicles, drivers, maints, today, aux, edits, resp>>

\* Vehicle.objects.filter(pk=self.vehicle_id).update(status=...)
WriteVehicle(w) ==
    LET p == procs[w]
    IN  /\ p.pc = "saved"
        /\ vehicles' = CascadeVehicle(p.obj, p.old_status, vehicles)
        /\ procs' = [procs EXCEPT ![w].pc = "vehicle_written"]
        /\ UNCHANGED <<drivers, trips, maints, today, aux, edits, resp>>

\* Driver.objects.filter(pk=self.driver_id).update(status=...)
WriteDriver(w) ==
    LET p == procs[w]
    IN  /\ p.pc = "vehicle_written"
        /\ drivers' = CascadeDriver(p.obj, p.old_status, drivers)
        /\ procs' = [procs EXCEPT ![w] =
              IF Frees(p.obj, p.old_status) /\ p.obj.status = "completed"
              THEN [p EXCEPT !.pc = "driver_written"]
              ELSE [p EXCEPT !.pc = "done", !.result = "ok"]]
        /\ UNCHANGED <<vehicles, trips, maints, today, aux, edits, resp>>

\* Trip.objects.filter(pk=self.pk).update(completed_date=...)
WriteCompletedDate(w) ==
    LET p == procs[w]
    IN  /\ p.pc = "driver_written"
        /\ trips' = [trips EXCEPT ![p.pk].completed_date = today]
        /\ procs' = [procs EXCEPT ![w].pc = "done", ![w].result = "ok"]
        /\ UNCHANGED <<vehicles, drivers, maints, today, aux, edits, resp>>

\* The worker dies, or loses its database connection, between two statements
\* of save(): nothing is rolled back, there is no enclosing transaction.
WorkerFails(w) ==
    /\ procs[w].pc \in {"saved", "vehicle_written", "driver_written"}
    /\ procs' = [procs EXCEPT ![w].pc = "done", ![w].result = "ServerError"]
    /\ UNCHANGED <<vehicles, drivers, trips, maints, today, aux, edits, resp>>

(* ------------------------------ Init ---------------------------------- *)
Anonymous == "anonymous"

\* No request has passed the permission classes yet.
\* A request body without license_number and license_expiry.
NoArg == [license |-> "", expiry |-> NoDate]

NoGate == [uid |-> Anonymous, actor |-> Anonymous, entity |-> "none", action |-> "none",
           allowed |-> FALSE, arg |-> NoArg]

\* No derived figure has been evaluated yet.
NoCalc == [op |-> "none"]

Usernames == {"ann", "bob"}
\* The User table, keyed by the unique username; NoUser is a missing row.
NoUser == [role |-> "none", exists |-> FALSE]

\* Empty User, FuelLog and Expense tables, no registered driver.
InitAux ==
    /\ users     = [u \in Usernames |-> NoUser]
    /\ profiles  = <<>>
    /\ gate      = NoGate
    /\ fuel_logs = <<>>
    /\ expenses  = <<>>
    /\ calc      = NoCalc

Init ==
    /\ vehicles = [v \in Vehicles |-> VehicleDefault]
    /\ drivers  = [d \in Drivers |-> DriverDefault]
    /\ trips    = <<>>
    /\ maints   = <<>>
    /\ today    \in 1..MaxDay
    /\ edits    = 0
    /\ resp     = Response("none", 0, "ok")
    /\ procs    = [w \in Workers |-> IdleProc]
    /\ InitAux

\* The transition operations on the vehicles Vs and the drivers Ds, and the
\* creation of draft trips and of open maintenance records.
Transitions(Vs, Ds) ==
    \/ \E v \in Vs, d \in Ds, c \in Cargoes : TripCreate(v, d, c, "draft", NoDate)
    \/ \E t \in TripIds : DispatchTrip(t)
    \/ \E t \in TripIds : CompleteTrip(t)
    \/ \E t \in TripIds : CancelTrip(t)
    \/ \E v \in Vs : Retire(v)
    \/ \E d \in Ds : Suspend(d)
    \/ \E d \in Ds : Reinstate(d)
    \/ \E v \in Vs, s \in {"pending", "in_progress"} : MaintenanceCreate(v, s, NoDate)
    \/ \E m \in MaintIds : MaintenanceComplete(m)

\* Create and update requests that carry client-chosen field values.
Edits(Vs, Ds) ==
    \/ \E v \in Vs, d \in Ds, c \in Cargoes, s \in TripStatus, cd \in ClientDates :
          /\ s # "draft" \/ cd # NoDate
          /\ TripCreate(v, d, c, s, cd)
    \/ \E t \in TripIds, data \in TripPatches :
          /\ "vehicle" \in DOMAIN data => data.vehicle \in Vs
          /\ "driver" \in DOMAIN data => data.driver \in Ds
          /\ TripUpdate(t, data)
    \/ \E v \in Vs, data \in VehiclePatches : VehicleUpdate(v, data)
    \/ \E d \in Ds, data \in DriverPatches : DriverUpdate(d, data)
    \/ \E v \in Vs, s \in MaintStatus, cd \in ClientDates :
          /\ s = "completed" \/ cd # NoDate
          /\ MaintenanceCreate(v, s, cd)
    \/ \E m \in MaintIds, data \in MaintPatches :
          /\ "vehicle" \in DOMAIN data => data.vehicle \in Vs
          /\ MaintenanceUpdate(m, data)

\* Requests are served one at a time. They address vehicle v1 and driver d1;
\* v2 and d2 are in the tables and no request names them.
Next == Transitions({"v1"}, {"d1"}) \/ Edits({"v1"}, {"d1"})

Spec == Init /\ [][Next]_vars

\* The transition operations alone, on the whole fleet with one driver, over
\* the days.
NextTransitions == Transitions(Vehicles, {"d1"}) \/ Tick

SpecTransitions == Init /\ [][NextTransitions]_vars

\* Trips are created and dispatched by requests served alone; then one
\* transition request per worker is in flight, their statements interleaved.
NextRace ==
    \/ \E c \in Cargoes : TripCreate("v1", "d1", c, "draft", NoDate)
    \/ \E t \in TripIds : (\A w \in Workers : procs[w].pc = "idle") /\ DispatchTrip(t)
    \/ \E w \in Workers, op \in TransitionOps, t \in TripIds : GetObject(w, op, t)
    \/ \E w \in Workers : FullClean(w)
    \/ \E w \in Workers : ReadOld(w)
    \/ \E w \in Workers : WriteTrip(w)
    \/ \E w \in Workers : WriteVehicle(w)
    \/ \E w \in Workers : WriteDriver(w)
    \/ \E w \in Workers : WriteCompletedDate(w)
    \/ \E w \in Workers : WorkerFails(w)

SpecRace == Init /\ [][NextRace]_vars

(* ------------- concurrent updates of vehicles, by statement ----------- *)
\* PUT/PATCH /api/vehicles/{id}/ served by two workers.  A worker loads the
\* instance and validates the request against it, then saves the instance.
Odometers == 0..MaxOdometer

OdometerPatches ==
    {[odometer_km |-> o] : o \in Odometers} \cup {[capacity_kg |-> c] : c \in Capacities}

\* VehicleDetailSerializer.validate_odometer_km, run when the field is sent
ValidateOdometer(data, inst) ==
    IF "odometer_km" \in DOMAIN data /\ data.odometer_km < inst.odometer_km
    THEN "OutOfRange" ELSE "ok"

IdleUpdate == [pc |-> "idle", pk |-> "v1", obj |-> VehicleDefault]

\* get_object() and serializer.is_valid(): the instance as loaded, with the
\* validated fields to set on it; a refused request is answered at once.
UpdateBegin(w, v, data) ==
    LET inst == vehicles[v]
        err  == ValidateOdometer(data, inst)
    IN  /\ procs[w].pc = "idle"
        /\ IF err # "ok"
           THEN /\ resp' = Response("vehicle_update", v, err)
                /\ UNCHANGED procs
           ELSE /\ procs' = [procs EXCEPT ![w] =
                                [pc |-> "validated", pk |-> v, obj |-> Patched(inst, data)]]
                /\ UNCHANGED resp
        /\ UNCHANGED <<vehicles, drivers, trips, maints, today, aux, edits>>

\* serializer.save(): instance.save() writes every column of the row
UpdateSave(w) ==
    LET p == procs[w]
    IN  /\ p.pc = "validated"
        /\ vehicles' = [vehicles EXCEPT ![p.pk] = p.obj]
        /\ procs' = [procs EXCEPT ![w] = IdleUpdate]
        /\ resp' = Response("vehicle_update", p.pk, "ok")
        /\ UNCHANGED <<drivers, trips, maints, today, aux, edits>>

InitOdometer ==
    /\ vehicles = [v \in Vehicles |-> VehicleDefault]
    /\ drivers  = [d \in Drivers |-> DriverDefault]
    /\ trips    = <<>>
    /\ maints   = <<>>
    /\ today    = 1
    /\ edits    = 0
    /\ resp     = Response("none", 0, "ok")
    /\ procs    = [w \in Workers |-> IdleUpdate]
    /\ InitAux

NextOdometer ==
    \/ \E w \in Workers, v \in Vehicles, data \in OdometerPatches : UpdateBegin(w, v, data)
    \/ \E w \in Workers : UpdateSave(w)

SpecOdometer == InitOdometer /\ [][NextOdometer]_vars

(* --------------------- users, roles and permissions ------------------- *)
Roles == {"manager", "dispatcher", "safety_officer", "analyst", "driver"}
\* license_number values a registration may send
Licenses == {"L1"}

UserIds == {u \in Usernames : users[u].exists}
\* Who sends a request: nobody logged in, or a stored user.
ActorIds == {Anonymous} \cup UserIds
RoleOf(uid) == IF uid = Anonymous THEN Anonymous ELSE users[uid].role
IsAuthenticated(uid) == uid # Anonymous

IsManager(uid) == IsAuthenticated(uid) /\ RoleOf(uid) = "manager"
IsManagerOrDispatcher(uid) == IsAuthenticated(uid) /\ RoleOf(uid) \in {"manager", "dispatcher"}
IsManagerOrSafetyOfficer(uid) == IsAuthenticated(uid) /\ RoleOf(uid) \in {"manager", "safety_officer"}
IsAnalystOrManager(uid) == IsAuthenticated(uid) /\ RoleOf(uid) \in {"manager", "analyst"}

Reads  == {"list", "retrieve"}
Writes == {"create", "update", "destroy"}

\* The actions of each ViewSet: those of ModelViewSet and its @action methods.
ActionsOf(entity) ==
    Reads \cup Writes \cup
    CASE entity = "vehicles"    -> {"available", "retire", "roi"}
      [] entity = "drivers"     -> {"available", "compliance_alerts", "suspend", "reinstate"}
      [] entity = "trips"       -> {"dispatch", "complete", "cancel"}
      [] entity = "fuel"        -> {"efficiency"}
      [] entity = "maintenance" -> {"complete"}
      [] OTHER                  -> {}

Entities == {"users", "vehicles", "drivers", "trips", "fuel", "maintenance", "expenses"}

\* permission_classes / get_permissions() of the ViewSet that serves the entity
Permitted(uid, entity, action) ==
    CASE entity = "users"       -> IsManager(uid)
      [] entity = "vehicles"    -> IF action = "retire" THEN IsManager(uid)
                                   ELSE IF action = "roi" THEN IsAnalystOrManager(uid)
                                   ELSE IsManagerOrDispatcher(uid)
      [] entity = "drivers"     -> IF action \in Reads THEN IsAuthenticated(uid)
                                   ELSE IsManagerOrSafetyOfficer(uid)
      [] entity = "trips"       -> IsManagerOrDispatcher(uid)
      [] entity = "fuel"        -> IF action = "efficiency" THEN IsAnalystOrManager(uid)
                                   ELSE IsManagerOrDispatcher(uid)
      [] entity = "maintenance" -> IsManagerOrSafetyOfficer(uid)
      [] entity = "expenses"    -> IF action \in Reads THEN IsAuthenticated(uid)
                                   ELSE IsAnalystOrManager(uid)

Decision(uid, entity, action, allowed, arg) ==
    [uid |-> uid, actor |-> RoleOf(uid), entity |-> entity, action |-> action,
     allowed |-> allowed, arg |-> arg]

AccessFrame == UNCHANGED <<vehicles, drivers, trips, maints, today, edits, procs,
                           fuel_logs, expenses, calc>>

\* A request to a ViewSet other than UserViewSet: check_permissions() lets it
\* through to the handler or answers 401/403; what the handler then does to
\* its own tables is the subject of the other specifications.
Access(uid, entity, action) ==
    /\ entity # "users"
    /\ gate' = Decision(uid, entity, action, Permitted(uid, entity, action), NoArg)
    /\ resp' = Response(action, 0, IF Permitted(uid, entity, action) THEN "ok" ELSE "Forbidden")
    /\ UNCHANGED <<users, profiles>>
    /\ AccessFrame

\* role values a request body may carry; "absent" is a body without the key
RoleInputs == Roles \cup {"absent", "admin"}
\* <<password, confirm_password>> of a request body
PasswordPairs == {<<"", "">>, <<"short", "short">>,
                  <<"longenough", "short">>, <<"longenough", "longenough">>}
Passwords == {pair[1] : pair \in PasswordPairs}
\* license_expiry values of a registration: '' (NoDate) or a date
ExpiryInputs == {NoDate, MaxDay}

UsernameTaken(name) == name \in UserIds

\* UserCreateSerializer.is_valid(): unique username, password of at least
\* eight characters, role one of the choices when sent.
UserCreateError(name, password, role) ==
    IF UsernameTaken(name) THEN "UsernameTaken"
    ELSE IF password # "longenough" THEN "PasswordTooShort"
    ELSE IF role \notin Roles \cup {"absent"} THEN "InvalidRole"
    ELSE "ok"

\* User(**validated_data): the model default fills a role that was not sent.
NewUser(role) ==
    [role |-> IF role = "absent" THEN "dispatcher" ELSE role, exists |-> TRUE]

\* Driver.objects.create() raises on a license_expiry that is no date and on
\* a license_number another Driver row already has.
DriverCreateFails(license, expiry) ==
    \/ expiry = NoDate
    \/ \E p \in 1..Len(profiles) : profiles[p].license_number = license

ProfileForAnyRole(user_id, role, license, expiry) ==
    IF DriverCreateFails(license, expiry) THEN <<>>
    ELSE <<[user |-> user_id, status |-> "off_duty", license_number |-> license]>>

\* The Driver rows RegisterView.post adds for the user it has just saved:
\* one for role driver, none when the creation raised (the exception is
\* caught and only printed) and none for the other roles.
ProfileFor(user_id, role, license, expiry) ==
    IF role = "driver" /\ ~DriverCreateFails(license, expiry)
    THEN <<[user |-> user_id, status |-> "off_duty", license_number |-> license]>>
    ELSE <<>>

RegisterError(name, password, confirm, role) ==
    IF password = "" \/ confirm = "" THEN "PasswordRequired"
    ELSE IF password # confirm THEN "PasswordMismatch"
    ELSE IF role # "absent" /\ role \notin Roles THEN "InvalidRole"
    ELSE UserCreateError(name, password, role)

\* POST /api/auth/register/ : permission_classes = [], so uid may be 0.
Register(uid, name, password, confirm, role, license, expiry) ==
    LET err == RegisterError(name, password, confirm, role)
        new == NewUser(role)
    IN  /\ gate' = Decision(uid, "users", "register", TRUE,
                            [license |-> license, expiry |-> expiry])
        /\ resp' = Response("register", name, err)
        /\ IF err = "ok"
           THEN /\ users' = [users EXCEPT ![name] = new]
                /\ profiles' = profiles \o ProfileFor(name, new.role, license, expiry)
           ELSE UNCHANGED <<users, profiles>>
        /\ AccessFrame

\* The fields UserSerializer lets a request write that are modelled here.
UserPatches == {[fields |-> {}, role |-> "absent"]} \cup
               [fields : {{"role"}}, role : Roles \cup {"admin"}]

UserValidate(patch) ==
    IF "role" \in patch.fields /\ patch.role \notin Roles THEN "InvalidRole" ELSE "ok"

UserPatched(row, patch) ==
    IF "role" \in patch.fields THEN [row EXCEPT !.role = patch.role] ELSE row

\* PATCH /api/auth/me/ : UserSerializer(request.user, partial=True).save()
MePatch(uid, patch) ==
    LET allowed == IsAuthenticated(uid)
        err     == IF ~allowed THEN "Forbidden" ELSE UserValidate(patch)
    IN  /\ gate' = Decision(uid, "users", "me_patch", allowed, NoArg)
        /\ resp' = Response("me_patch", uid, err)
        /\ users' = IF err = "ok" THEN [users EXCEPT ![uid] = UserPatched(@, patch)]
                    ELSE users
        /\ UNCHANGED profiles
        /\ AccessFrame

\* POST /api/users/ : UserViewSet with UserCreateSerializer, IsManager
UserCreate(uid, name, password, role) ==
    LET allowed == Permitted(uid, "users", "create")
        err     == IF ~allowed THEN "Forbidden" ELSE UserCreateError(name, password, role)
    IN  /\ gate' = Decision(uid, "users", "create", allowed, NoArg)
        /\ resp' = Response("user_create", name, err)
        /\ users' = IF err = "ok" THEN [users EXCEPT ![name] = NewUser(role)] ELSE users
        /\ UNCHANGED profiles
        /\ AccessFrame

\* PUT/PATCH /api/users/{id}/ : UserViewSet with UserSerializer, IsManager
UserUpdate(uid, id, patch) ==
    LET allowed == Permitted(uid, "users", "update")
        err     == IF ~allowed THEN "Forbidden"
                   ELSE IF id \notin UserIds THEN "NotFound"
                   ELSE UserValidate(patch)
    IN  /\ gate' = Decision(uid, "users", "update", allowed, NoArg)
        /\ resp' = Response("user_update", id, err)
        /\ users' = IF err = "ok" THEN [users EXCEPT ![id] = UserPatched(@, patch)]
                    ELSE users
        /\ UNCHANGED profiles
        /\ AccessFrame

\* DELETE /api/users/{id}/ : the row goes, Driver.user is SET_NULL.
UserDestroy(uid, id) ==
    LET allowed == Permitted(uid, "users", "destroy")
        err     == IF ~allowed THEN "Forbidden"
                   ELSE IF id \notin UserIds THEN "NotFound"
                   ELSE "ok"
    IN  /\ gate' = Decision(uid, "users", "destroy", allowed, NoArg)
        /\ resp' = Response("user_destroy", id, err)
        /\ users' = IF err = "ok" THEN [users EXCEPT ![id] = NoUser] ELSE users
        /\ profiles' = IF err = "ok"
                       THEN [p \in 1..Len(profiles) |->
                                IF profiles[p].user = id
                                THEN [profiles[p] EXCEPT !.user = Anonymous] ELSE profiles[p]]
                       ELSE profiles
        /\ AccessFrame

InitAccess == Init /\ today = 1

\* Registration is the public sign-up form: its requests carry no token.
NextAccess ==
    \/ \E uid \in {Anonymous}, name \in Usernames, pair \in PasswordPairs,
          role \in RoleInputs, license \in Licenses, expiry \in ExpiryInputs :
          Register(uid, name, pair[1], pair[2], role, license, expiry)
    \/ \E uid \in ActorIds, patch \in UserPatches : MePatch(uid, patch)
    \/ \E uid \in ActorIds, name \in Usernames, password \in Passwords \ {""},
          role \in RoleInputs : UserCreate(uid, name, password, role)
    \/ \E uid \in ActorIds, id \in Usernames, patch \in UserPatches :
          UserUpdate(uid, id, patch)
    \/ \E uid \in ActorIds, id \in Usernames : UserDestroy(uid, id)

SpecAccess == InitAccess /\ [][NextAccess]_vars

\* The permission classes alone: one stored user of some role, and requests
\* to the ViewSets by that user and by a client that is not logged in.
InitPermissions ==
    /\ vehicles = [v \in Vehicles |-> VehicleDefault]
    /\ drivers  = [d \in Drivers |-> DriverDefault]
    /\ trips    = <<>>
    /\ maints   = <<>>
    /\ today    = 1
    /\ edits    = 0
    /\ resp     = Response("none", 0, "ok")
    /\ procs    = [w \in Workers |-> IdleProc]
    /\ \E role \in Roles : users = [u \in Usernames |->
                                     IF u = "ann" THEN NewUser(role) ELSE NoUser]
    /\ profiles  = <<>>
    /\ gate      = NoGate
    /\ fuel_logs = <<>>
    /\ expenses  = <<>>
    /\ calc      = NoCalc

NextPermissions ==
    \E uid \in ActorIds, entity \in Entities \ {"users"} :
       \E action \in ActionsOf(entity) : Access(uid, entity, action)

SpecPermissions == InitPermissions /\ [][NextPermissions]_vars

(* ------------------------- fuel logs and expenses ---------------------- *)
\* Money and quantities are DecimalFields with two decimal places: they are
\* counted in hundredths, and a product of two of them in ten-thousandths.
LitersInputs == {-100, 0, 33, 50, 4000}
PriceInputs  == {-1, 0, 1, 33, 350}
AmountInputs == {-1, 0, 250}
\* total_cost not sent / not yet computed
NoCost == -1
CostInputs == {NoCost, 999}

\* What a DECIMAL(10,2) column keeps of a value given in ten-thousandths: the
\* nearest hundredth. An exact half goes to the even neighbour where Django
\* quantizes the value (ROUND_HALF_EVEN) and upwards where the database
\* rounds it; either is possible.
Quantize(p) ==
    LET q == p \div 100
        r == p % 100
    IN  IF r < 50 THEN {q}
        ELSE IF r > 50 THEN {q + 1}
        ELSE {q + 1} \cup (IF q % 2 = 0 THEN {q} ELSE {})

FuelLogSaveAsGiven(row) == {row}

\* FuelLog.save(): total_cost = liters * price_per_liter, then the row is
\* written.
FuelLogSave(row) ==
    {[row EXCEPT !.total_cost = c] : c \in Quantize(row.liters * row.price_per_liter)}

FuelFields == {"liters", "price_per_liter"}
\* Request bodies; a field that is not sent is written as 0 (NoCost for
\* total_cost) and is never read.
FuelBodies ==
    {b \in [fields : SUBSET FuelFields, liters : LitersInputs,
            price_per_liter : PriceInputs, total_cost : CostInputs] :
        /\ "liters" \notin b.fields => b.liters = 0
        /\ "price_per_liter" \notin b.fields => b.price_per_liter = 0}

FuelLogErrorNegativeOnly(body) ==
    IF \/ "liters" \in body.fields /\ body.liters < 0
       \/ "price_per_liter" \in body.fields /\ body.price_per_liter < 0
    THEN "InvalidQuantity" ELSE "ok"

\* FuelLogSerializer.validate_liters / validate_price_per_liter, run on the
\* fields the request sent.
FuelLogError(body) ==
    IF \/ "liters" \in body.fields /\ body.liters <= 0
       \/ "price_per_liter" \in body.fields /\ body.price_per_liter <= 0
    THEN "InvalidQuantity" ELSE "ok"

\* validated_data applied to the instance: total_cost is read-only and is
\* dropped from the request.
FuelPatched(row, body) ==
    [liters          |-> IF "liters" \in body.fields THEN body.liters ELSE row.liters,
     price_per_liter |-> IF "price_per_liter" \in body.fields
                         THEN body.price_per_liter ELSE row.price_per_liter,
     total_cost      |-> row.total_cost]

NewFuelLog == [liters |-> 0, price_per_liter |-> 0, total_cost |-> NoCost]

LedgerFrame == UNCHANGED <<vehicles, drivers, trips, maints, today, edits, procs,
                           users, profiles, calc>>

\* POST /api/fuel/
FuelLogCreate(uid, body) ==
    LET allowed == Permitted(uid, "fuel", "create")
        err     == IF ~allowed THEN "Forbidden" ELSE FuelLogError(body)
    IN  /\ body.fields = FuelFields
        /\ Len(fuel_logs) < MaxFuelLogs
        /\ gate' = Decision(uid, "fuel", "create", allowed, body)
        /\ resp' = Response("fuel_create", IF err = "ok" THEN Len(fuel_logs) + 1 ELSE NoPk, err)
        /\ IF err = "ok"
           THEN \E saved \in FuelLogSave(FuelPatched(NewFuelLog, body)) :
                   fuel_logs' = Append(fuel_logs, saved)
           ELSE UNCHANGED fuel_logs
        /\ UNCHANGED expenses
        /\ LedgerFrame

\* PUT/PATCH /api/fuel/{id}/
FuelLogUpdate(uid, id, body) ==
    LET allowed == Permitted(uid, "fuel", "update")
        err     == IF ~allowed THEN "Forbidden" ELSE FuelLogError(body)
    IN  /\ id \in 1..Len(fuel_logs)
        /\ gate' = Decision(uid, "fuel", "update", allowed, body)
        /\ resp' = Response("fuel_update", id, err)
        /\ IF err = "ok"
           THEN \E saved \in FuelLogSave(FuelPatched(fuel_logs[id], body)) :
                   fuel_logs' = [fuel_logs EXCEPT ![id] = saved]
           ELSE UNCHANGED fuel_logs
        /\ UNCHANGED expenses
        /\ LedgerFrame

ExpenseBodies ==
    {b \in [fields : SUBSET {"amount"}, amount : AmountInputs] :
        "amount" \notin b.fields => b.amount = 0}

\* ExpenseSerializer.validate_amount, run when the request sent amount.
ExpenseError(body) ==
    IF "amount" \in body.fields /\ body.amount < 0 THEN "NegativeAmount" ELSE "ok"

ExpensePatched(row, body) ==
    [amount |-> IF "amount" \in body.fields THEN body.amount ELSE row.amount]

\* POST /api/expenses/
ExpenseCreate(uid, body) ==
    LET allowed == Permitted(uid, "expenses", "create")
        err     == IF ~allowed THEN "Forbidden" ELSE ExpenseError(body)
    IN  /\ body.fields = {"amount"}
        /\ Len(expenses) < MaxExpenses
        /\ gate' = Decision(uid, "expenses", "create", allowed, body)
        /\ resp' = Response("expense_create", IF err = "ok" THEN Len(expenses) + 1 ELSE NoPk, err)
        /\ expenses' = IF err = "ok"
                       THEN Append(expenses, ExpensePatched([amount |-> 0], body))
                       ELSE expenses
        /\ UNCHANGED fuel_logs
        /\ LedgerFrame

\* PUT/PATCH /api/expenses/{id}/
ExpenseUpdate(uid, id, body) ==
    LET allowed == Permitted(uid, "expenses", "update")
        err     == IF ~allowed THEN "Forbidden" ELSE ExpenseError(body)
    IN  /\ id \in 1..Len(expenses)
        /\ gate' = Decision(uid, "expenses", "update", allowed, body)
        /\ resp' = Response("expense_update", id, err)
        /\ expenses' = IF err = "ok"
                       THEN [expenses EXCEPT ![id] = ExpensePatched(@, body)]
                       ELSE expenses
        /\ UNCHANGED fuel_logs
        /\ LedgerFrame

\* One stored manager; requests come from that manager or carry no token.
InitLedger ==
    /\ vehicles = [v \in Vehicles |-> VehicleDefault]
    /\ drivers  = [d \in Drivers |-> DriverDefault]
    /\ trips    = <<>>
    /\ maints   = <<>>
    /\ today    = 1
    /\ edits    = 0
    /\ resp     = Response("none", 0, "ok")
    /\ procs    = [w \in Workers |-> IdleProc]
    /\ users    = [u \in Usernames |-> IF u = "ann" THEN NewUser("manager") ELSE NoUser]
    /\ profiles  = <<>>
    /\ gate      = NoGate
    /\ fuel_logs = <<>>
    /\ expenses  = <<>>
    /\ calc      = NoCalc

NextLedger ==
    \/ \E uid \in ActorIds, body \in FuelBodies : FuelLogCreate(uid, body)
    \/ \E uid \in ActorIds, id \in 1..MaxFuelLogs, body \in FuelBodies :
          FuelLogUpdate(uid, id, body)
    \/ \E uid \in ActorIds, body \in ExpenseBodies : ExpenseCreate(uid, body)
    \/ \E uid \in ActorIds, id \in 1..MaxExpenses, body \in ExpenseBodies :
          ExpenseUpdate(uid, id, body)

SpecLedger == InitLedger /\ [][NextLedger]_vars

(* ------------------------------ Vehicle.roi --------------------------- *)
\* The rows Vehicle.roi reads, in whole currency units: calc holds a Trip, a
\* FuelLog and a Maintenance table and the acquisition_cost of each vehicle.
RevenueInputs == {1, 2000}
CostValues    == {0, 1}
AcqInputs     == {0, 3, 10000, 20000}
RoiStatuses   == {"completed", "dispatched"}
RoiTrips      == 2
RoiCosts      == 1

RECURSIVE Sum(_)
Sum(s) == IF s = <<>> THEN 0 ELSE Head(s) + Sum(Tail(s))

OfVehicle(rows, v) == SelectSeq(rows, LAMBDA r : r.vehicle = v)

TotalFuelCost(v) ==
    LET rows == OfVehicle(calc.fuel_logs, v)
    IN  Sum([i \in 1..Len(rows) |-> rows[i].total_cost])

TotalMaintenanceCost(v) ==
    LET rows == OfVehicle(calc.maintenance, v)
    IN  Sum([i \in 1..Len(rows) |-> rows[i].cost])

TotalOperationalCost(v) == TotalFuelCost(v) + TotalMaintenanceCost(v)

TotalRevenueAllTrips(v) ==
    LET rows == OfVehicle(calc.trips, v)
    IN  Sum([i \in 1..Len(rows) |-> rows[i].revenue])

\* trips.filter(status='completed').aggregate(Sum('revenue'))
TotalRevenue(v) ==
    LET rows == SelectSeq(OfVehicle(calc.trips, v), LAMBDA r : r.status = "completed")
    IN  Sum([i \in 1..Len(rows) |-> rows[i].revenue])

Abs(x) == IF x < 0 THEN -x ELSE x

\* round(n / d, 0) for d > 0: the integers nearest to n / d. Python rounds
\* the binary float it has computed, so at an exact half the neighbour it
\* returns depends on how the quotient is represented: both are kept.
Nearest(n, d) == {q \in (n \div d) .. (n \div d) + 1 : 2 * Abs(q * d - n) <= d}

\* Vehicle.roi, in hundredths of a percent.
Roi(v) ==
    IF calc.acquisition_cost[v] = 0 THEN {0}
    ELSE Nearest((TotalRevenue(v) - TotalOperationalCost(v)) * 10000,
                 calc.acquisition_cost[v])

\* GET /api/vehicles/{id}/roi/
RoiReport(v) ==
    /\ \E r \in Roi(v) : calc' = [calc EXCEPT !.op = "roi", !.vehicle = v, !.roi = r]
    /\ resp' = Response("roi", v, "ok")
    /\ UNCHANGED <<vehicles, drivers, trips, maints, today, edits, procs,
                   users, profiles, gate, fuel_logs, expenses>>

InitRoi ==
    /\ vehicles = [v \in Vehicles |-> VehicleDefault]
    /\ drivers  = [d \in Drivers |-> DriverDefault]
    /\ trips    = <<>>
    /\ maints   = <<>>
    /\ today    = 1
    /\ edits    = 0
    /\ resp     = Response("none", 0, "ok")
    /\ procs    = [w \in Workers |-> IdleProc]
    /\ users    = [u \in Usernames |-> NoUser]
    /\ profiles  = <<>>
    /\ gate      = NoGate
    /\ fuel_logs = <<>>
    /\ expenses  = <<>>
    /\ calc \in [op : {"none"}, vehicle : {"v1"}, roi : {0},
                 acquisition_cost : [Vehicles -> AcqInputs],
                 trips : [1..RoiTrips -> [vehicle : Vehicles, status : RoiStatuses,
                                          revenue : RevenueInputs]],
                 fuel_logs : [1..RoiCosts -> [vehicle : Vehicles, total_cost : CostValues]],
                 maintenance : [1..RoiCosts -> [vehicle : Vehicles, cost : CostValues]]]

NextRoi == \E v \in Vehicles : RoiReport(v)

SpecRoi == InitRoi /\ [][NextRoi]_vars

(* ------------------------ fuel efficiency report ---------------------- *)
\* The rows efficiency_report reads, in whole litres and kilometres: calc
\* holds a FuelLog table and a Trip table.
EffLogs   == 2
EffTrips  == 2
LiterValues    == {1, 2}
DistanceValues == {3, 10}
EffStatuses    == {"completed", "draft"}

\* Vehicle.objects.annotate(Sum('fuel_logs__liters'), Sum('trips__distance_km')):
\* one query that LEFT JOINs both tables to the vehicle, so each fuel log
\* appears once per trip of the vehicle and each trip once per fuel log.
Joined(v) ==
    LET logs == OfVehicle(calc.fuel_logs, v)
        trs  == OfVehicle(calc.trips, v)
    IN  [logs |-> logs, trips |-> trs,
         copies_of_log  |-> IF Len(trs) = 0 THEN 1 ELSE Len(trs),
         copies_of_trip |-> IF Len(logs) = 0 THEN 1 ELSE Len(logs)]

\* fuel_used: Sum over the joined rows
FuelUsed(v) ==
    LET j == Joined(v)
    IN  j.copies_of_log * Sum([i \in 1..Len(j.logs) |-> j.logs[i].liters])

\* trips_distance: Sum over the joined rows
TripsDistance(v) ==
    LET j == Joined(v)
    IN  j.copies_of_trip * Sum([i \in 1..Len(j.trips) |-> j.trips[i].distance_km])

\* .filter(fuel_used__gt=0), in the queryset's order (Vehicle.Meta.ordering)
VehicleOrder == <<"v1", "v2">>
Reported == SelectSeq(VehicleOrder, LAMBDA v : FuelUsed(v) > 0)

\* round(float(trips_distance) / float(fuel_used), 2), in hundredths
KmPerLiter(v) == Nearest(TripsDistance(v) * 100, FuelUsed(v))

\* data.sort(key=km_per_liter, reverse=True): a stable sort, so rows with
\* equal keys keep their order.
SortDescending(rows) ==
    LET n == Len(rows)
        before(i, j) == \/ rows[i].km_per_liter > rows[j].km_per_liter
                        \/ rows[i].km_per_liter = rows[j].km_per_liter /\ i < j
        rank(i) == Cardinality({j \in 1..n : before(j, i)}) + 1
    IN  [k \in 1..n |-> rows[CHOOSE i \in 1..n : rank(i) = k]]

\* GET /api/fuel/efficiency/
EfficiencyReport ==
    /\ \E km \in [Vehicles -> UNION {IF FuelUsed(v) > 0 THEN KmPerLiter(v) ELSE {0}
                                     : v \in Vehicles}] :
          /\ \A v \in Vehicles : FuelUsed(v) > 0 => km[v] \in KmPerLiter(v)
          /\ \A v \in Vehicles : FuelUsed(v) = 0 => km[v] = 0
          /\ calc' = [calc EXCEPT
                 !.op = "efficiency",
                 !.report = SortDescending(
                     [i \in 1..Len(Reported) |->
                         [vehicle           |-> Reported[i],
                          total_liters      |-> FuelUsed(Reported[i]),
                          total_distance_km |-> TripsDistance(Reported[i]),
                          km_per_liter      |-> km[Reported[i]]]])]
    /\ resp' = Response("efficiency", 0, "ok")
    /\ UNCHANGED <<vehicles, drivers, trips, maints, today, edits, procs,
                   users, profiles, gate, fuel_logs, expenses>>

InitEfficiency ==
    /\ vehicles = [v \in Vehicles |-> VehicleDefault]
    /\ drivers  = [d \in Drivers |-> DriverDefault]
    /\ trips    = <<>>
    /\ maints   = <<>>
    /\ today    = 1
    /\ edits    = 0
    /\ resp     = Response("none", 0, "ok")
    /\ procs    = [w \in Workers |-> IdleProc]
    /\ users    = [u \in Usernames |-> NoUser]
    /\ profiles  = <<>>
    /\ gate      = NoGate
    /\ fuel_logs = <<>>
    /\ expenses  = <<>>
    /\ calc \in [op : {"none"}, report : {<<>>},
                 fuel_logs : [1..EffLogs -> [vehicle : Vehicles, liters : LiterValues]],
                 trips : [1..EffTrips -> [vehicle : Vehicles, status : EffStatuses,
                                          distance_km : DistanceValues]]]

NextEfficiency == EfficiencyReport

SpecEfficiency == InitEfficiency /\ [][NextEfficiency]_vars

(* ======================================================================= *)
(*                               Properties                                *)
(* ======================================================================= *)
DispatchedOn(v) == {t \in TripIds : trips[t].vehicle = v /\ trips[t].status = "dispatched"}

\* The step is the serving of a dispatch / complete / cancel request for a
\* trip that exists; every handler writes its own response.
IsRequest(op) == resp'.op = op /\ resp'.id \in TripIds

Unchanged == UNCHANGED <<vehicles, drivers, trips, maints>>

\* C1: in every reachable state each vehicle is referenced by at most one
\* trip whose status is dispatched.
C1_OneDispatchedTripPerVehicle ==
    \A v \in Vehicles : Cardinality(DispatchedOn(v)) <= 1

\* C2: of two dispatch requests for two different draft trips on the same
\* vehicle, served concurrently, at most one succeeds: once both have been
\* answered, not both answers are a success and not both trips are dispatched.
C2_ConcurrentDispatchOneWinner ==
    \A w1, w2 \in Workers :
        ( /\ w1 # w2
          /\ procs[w1].pc = "done" /\ procs[w2].pc = "done"
          /\ procs[w1].op = "dispatch" /\ procs[w2].op = "dispatch"
          /\ procs[w1].pk # procs[w2].pk
          /\ procs[w1].obj.vehicle = procs[w2].obj.vehicle )
        => /\ ~(procs[w1].result = "ok" /\ procs[w2].result = "ok")
           /\ ~( trips[procs[w1].pk].status = "dispatched"
                 /\ trips[procs[w2].pk].status = "dispatched" )

\* C3: the trip status write and the cascaded vehicle and driver status writes
\* are one atomic unit: every step that moves a trip into dispatched also
\* leaves its vehicle on_trip and its driver on_duty, and every step that moves
\* a trip from dispatched to completed or cancelled also leaves its vehicle
\* available and its driver off_duty.
C3_TransitionAndCascadeAtomic ==
    [][\A t \in TripIds :
          /\ (trips[t].status = "draft" /\ trips'[t].status = "dispatched")
                => /\ vehicles'[trips'[t].vehicle].status = "on_trip"
                   /\ drivers'[trips'[t].driver].status = "on_duty"
          /\ (trips[t].status = "dispatched" /\ trips'[t].status \in {"completed", "cancelled"})
                => /\ vehicles'[trips'[t].vehicle].status = "available"
                   /\ drivers'[trips'[t].driver].status = "off_duty"]_vars

\* C4: while a trip A is dispatched on a vehicle, a dispatch of another draft
\* trip B on that vehicle fails with VehicleBusy and changes nothing.
C4_SecondDispatchFailsVehicleBusy ==
    [][\A b \in TripIds :
          ( /\ IsRequest("dispatch") /\ resp'.id = b
            /\ trips[b].status = "draft"
            /\ \E a \in DispatchedOn(trips[b].vehicle) : a # b )
          => (resp'.err = "VehicleBusy" /\ Unchanged)]_vars

\* C5: a step that completes a dispatched trip sets the trip to completed, its
\* vehicle to available, its driver to off_duty and its completed_date to the
\* server's date, whatever date was stored or sent; a successful complete
\* request is such a step.
C5_CompleteReleasesAndStamps ==
    [][/\ \A t \in TripIds :
            (trips[t].status = "dispatched" /\ trips'[t].status = "completed")
            => /\ vehicles'[trips'[t].vehicle].status = "available"
               /\ drivers'[trips'[t].driver].status = "off_duty"
               /\ trips'[t].completed_date = today
       /\ (IsRequest("complete") /\ resp'.err = "ok")
            => /\ trips[resp'.id].status = "dispatched"
               /\ trips'[resp'.id].status = "completed"]_vars

\* C5 witness: a complete request has just succeeded; the trip is completed
\* and stamped, its vehicle and driver are released.
C5_Witness ==
    /\ resp.op = "complete" /\ resp.err = "ok"
    /\ trips[resp.id].status = "completed"
    /\ trips[resp.id].completed_date = today
    /\ vehicles[trips[resp.id].vehicle].status = "available"
    /\ drivers[trips[resp.id].driver].status = "off_duty"

LegalEdges == {<<"draft", "dispatched">>, <<"dispatched", "completed">>,
               <<"draft", "cancelled">>, <<"dispatched", "cancelled">>}

\* C6: a transition that is not legal for the trip's current status is
\* refused and changes nothing: a dispatch request on a trip that is not draft,
\* a complete request on a trip that is not dispatched and a cancel request on
\* a completed trip fail with InvalidTransition; no step takes a draft trip to
\* completed; no step changes a completed trip.
C6_IllegalTransitionRefused ==
    [][/\ \A t \in TripIds :
            /\ (IsRequest("dispatch") /\ resp'.id = t /\ trips[t].status # "draft")
                 => (resp'.err = "InvalidTransition" /\ Unchanged)
            /\ (IsRequest("complete") /\ resp'.id = t /\ trips[t].status # "dispatched")
                 => (resp'.err = "InvalidTransition" /\ Unchanged)
            /\ (IsRequest("cancel") /\ resp'.id = t /\ trips[t].status = "completed")
                 => (resp'.err = "InvalidTransition" /\ Unchanged)
            /\ ~(trips[t].status = "draft" /\ trips'[t].status = "completed")
            /\ trips[t].status = "completed" => trips'[t] = trips[t]]_vars

\* C7: a trip's status only ever changes along draft -> dispatched,
\* dispatched -> completed, draft -> cancelled, dispatched -> cancelled.
C7_StatusOneDirectional ==
    [][\A t \in TripIds :
          trips'[t].status # trips[t].status
          => <<trips[t].status, trips'[t].status>> \in LegalEdges]_vars

\* C8: a dispatch request for a draft trip whose cargo_weight_kg is greater
\* than its vehicle's capacity_kg fails with CapacityExceeded and changes
\* nothing.
C8_OverCapacityDispatchFails ==
    [][\A t \in TripIds :
          ( /\ IsRequest("dispatch") /\ resp'.id = t
            /\ trips[t].status = "draft"
            /\ trips[t].cargo_weight_kg > vehicles[trips[t].vehicle].capacity_kg )
          => (resp'.err = "CapacityExceeded" /\ Unchanged)]_vars

OverCapacity(t) ==
    /\ trips[t].cargo_weight_kg # 0
    /\ trips[t].cargo_weight_kg > vehicles[trips[t].vehicle].capacity_kg

Expired(t)   == drivers[trips[t].driver].license_expiry < today
Suspended(t) == drivers[trips[t].driver].status = "suspended"
Grounded(t)  == vehicles[trips[t].vehicle].status \in {"in_shop", "retired"}

DispatchOf(t) == IsRequest("dispatch") /\ resp'.id = t

\* C9 (as amended): a dispatch request for a draft trip whose driver has an
\* expired license or is suspended always fails and changes nothing; the error
\* is CapacityExceeded when the cargo check fails, otherwise LicenseExpired
\* when the license is expired (also when the driver is suspended as well),
\* otherwise DriverSuspended.
C9_DriverComplianceByPrecedence ==
    [][\A t \in TripIds :
          (DispatchOf(t) /\ trips[t].status = "draft" /\ (Expired(t) \/ Suspended(t)))
          => /\ Unchanged
             /\ resp'.err = IF OverCapacity(t) THEN "CapacityExceeded"
                            ELSE IF Expired(t) THEN "LicenseExpired"
                            ELSE "DriverSuspended"]_vars

\* C9 witness: a dispatch request has just been refused with DriverSuspended;
\* the trip is still draft and its driver still suspended.
C9_Witness ==
    /\ resp.op = "dispatch" /\ resp.err = "DriverSuspended"
    /\ trips[resp.id].status = "draft"
    /\ drivers[trips[resp.id].driver].status = "suspended"

\* C9 (as stated): a dispatch request for a draft trip fails with
\* LicenseExpired whenever the driver's license is expired and with
\* DriverSuspended whenever the driver is suspended, and changes nothing.
C9_AsStated ==
    [][\A t \in TripIds :
          (DispatchOf(t) /\ trips[t].status = "draft")
          => /\ Expired(t)   => (resp'.err = "LicenseExpired" /\ Unchanged)
             /\ Suspended(t) => (resp'.err = "DriverSuspended" /\ Unchanged)]_vars

\* C10 (as amended): a dispatch request for a trip whose vehicle is in_shop or
\* retired always fails and changes nothing; the error is InvalidTransition
\* when the trip is not draft, otherwise the first failing check in the order
\* cargo, license, suspension, and VehicleUnavailable when those pass.  No
\* step of any operation makes a trip dispatched on a vehicle that is in_shop
\* or retired.
C10_GroundedVehicleNeverDispatched ==
    [][/\ \A t \in TripIds :
            (DispatchOf(t) /\ Grounded(t))
            => /\ Unchanged
               /\ resp'.err = IF trips[t].status # "draft" THEN "InvalidTransition"
                              ELSE IF OverCapacity(t) THEN "CapacityExceeded"
                              ELSE IF Expired(t) THEN "LicenseExpired"
                              ELSE IF Suspended(t) THEN "DriverSuspended"
                              ELSE "VehicleUnavailable"
       /\ \A t \in 1..Len(trips') :
            ( /\ trips'[t].status = "dispatched"
              /\ (t \in TripIds => trips[t].status # "dispatched") )
            => vehicles[trips'[t].vehicle].status \notin {"in_shop", "retired"}]_vars

\* C10 witness: a dispatch request has just been refused with
\* VehicleUnavailable; the trip is still draft and its vehicle in_shop or
\* retired.
C10_Witness ==
    /\ resp.op = "dispatch" /\ resp.err = "VehicleUnavailable"
    /\ trips[resp.id].status = "draft"
    /\ vehicles[trips[resp.id].vehicle].status \in {"in_shop", "retired"}

\* C10 (as stated): every dispatch request for a trip whose vehicle is in_shop
\* or retired fails with VehicleUnavailable and changes nothing.
C10_AsStated ==
    [][\A t \in TripIds :
          (DispatchOf(t) /\ Grounded(t))
          => (resp'.err = "VehicleUnavailable" /\ Unchanged)]_vars

CancelOf(t) == IsRequest("cancel") /\ resp'.id = t

\* C11: a step that takes a trip from dispatched to cancelled leaves its
\* vehicle available and its driver off_duty, as completion does; a cancel
\* request on a dispatched trip that succeeds is such a step and changes
\* nothing of the trip but its status, so an unset completed_date stays unset.
C11_CancelDispatchedReleases ==
    [][\A t \in TripIds :
          /\ (trips[t].status = "dispatched" /\ trips'[t].status = "cancelled")
               => /\ vehicles'[trips'[t].vehicle].status = "available"
                  /\ drivers'[trips'[t].driver].status = "off_duty"
          /\ (CancelOf(t) /\ resp'.err = "ok" /\ trips[t].status = "dispatched")
               => /\ trips' = [trips EXCEPT ![t].status = "cancelled"]
                  /\ trips'[t].completed_date = trips[t].completed_date]_vars

\* C11 witness: only lifecycle requests were served; a cancel request has just
\* succeeded on the one trip of its vehicle that is not draft, and the vehicle
\* is available although its maintenance record is still open: it is the
\* cancellation that released it.
C11_Witness ==
    /\ edits = 0
    /\ resp.op = "cancel" /\ resp.err = "ok"
    /\ trips[resp.id].status = "cancelled"
    /\ trips[resp.id].completed_date = NoDate
    /\ vehicles[trips[resp.id].vehicle].status = "available"
    /\ drivers[trips[resp.id].driver].status = "off_duty"
    /\ \E m \in MaintIds : /\ maints[m].vehicle = trips[resp.id].vehicle
                           /\ maints[m].status # "completed"
    /\ \A u \in TripIds \ {resp.id} : trips[u].status = "draft"

\* C12: a cancel request on a draft trip changes nothing but that trip's
\* status: every vehicle, every driver, every maintenance record and every
\* other trip is as before, whatever their values; the trip becomes cancelled
\* with its other fields as before, unless the request is refused by the cargo
\* check, and then nothing changes at all.
C12_CancelDraftFrame ==
    [][\A t \in TripIds :
          (CancelOf(t) /\ trips[t].status = "draft")
          => /\ UNCHANGED <<vehicles, drivers, maints>>
             /\ resp'.err = IF OverCapacity(t) THEN "CapacityExceeded" ELSE "ok"
             /\ trips' = IF resp'.err = "ok"
                         THEN [trips EXCEPT ![t].status = "cancelled"]
                         ELSE trips]_vars

\* C12 witness: a cancel request has just succeeded on a trip whose vehicle is
\* on_trip and whose driver is on_duty for another, dispatched, trip.
C12_Witness ==
    /\ resp.op = "cancel" /\ resp.err = "ok"
    /\ trips[resp.id].status = "cancelled"
    /\ vehicles[trips[resp.id].vehicle].status = "on_trip"
    /\ drivers[trips[resp.id].driver].status = "on_duty"
    /\ \E u \in TripIds \ {resp.id} :
          /\ trips[u].status = "dispatched"
          /\ trips[u].vehicle = trips[resp.id].vehicle

\* C13: a request that creates a maintenance record with status pending or
\* in_progress is never refused, stores the record and leaves its vehicle
\* in_shop, whatever the vehicle's status was.
C13_MaintenanceCreateForcesInShop ==
    [][(resp'.op = "maint_create" /\ maints' # maints)
       => /\ resp'.err = "ok"
          /\ Len(maints') = Len(maints) + 1
          /\ LET rec == maints'[Len(maints')]
             IN  rec.status \in {"pending", "in_progress"}
                 => /\ vehicles'[rec.vehicle].status = "in_shop"
                    /\ \A v \in Vehicles \ {rec.vehicle} : vehicles'[v] = vehicles[v]]_vars

\* C13 witness: only lifecycle requests were served; a maintenance record has
\* just been created for a vehicle that was on_trip for a dispatched trip, and
\* the vehicle is in_shop.
C13_Witness ==
    /\ edits = 0
    /\ resp.op = "maint_create" /\ resp.err = "ok"
    /\ maints[resp.id].status \in {"pending", "in_progress"}
    /\ vehicles[maints[resp.id].vehicle].status = "in_shop"
    /\ DispatchedOn(maints[resp.id].vehicle) # {}

\* C14: a step that takes a maintenance record into completed from another
\* status leaves its vehicle available and the record with a completed_date:
\* the server's date when the complete request found none stored, the stored
\* one otherwise; a complete request on a record that is completed already
\* changes nothing, so the date is stamped once.
C14_MaintenanceCompleteStampsOnce ==
    [][\A m \in MaintIds :
          /\ (maints[m].status # "completed" /\ maints'[m].status = "completed")
               => /\ vehicles'[maints'[m].vehicle].status = "available"
                  /\ maints'[m].completed_date # NoDate
                  /\ (resp'.op = "maint_complete")
                       => maints'[m].completed_date =
                             IF maints[m].completed_date = NoDate THEN today
                             ELSE maints[m].completed_date
          /\ (resp'.op = "maint_complete" /\ resp'.id = m /\ maints[m].status = "completed")
               => UNCHANGED <<vehicles, drivers, trips, maints>>
          /\ (resp'.op = "maint_complete" /\ resp'.id = m)
               => (resp'.err = "ok" /\ maints'[m].status = "completed")]_vars

\* C14 witness: only lifecycle requests were served; a complete request has
\* just been answered, the record is completed and carries the server's date,
\* its vehicle is available.
C14_Witness ==
    /\ edits = 0
    /\ resp.op = "maint_complete" /\ resp.err = "ok"
    /\ maints[resp.id].status = "completed"
    /\ maints[resp.id].completed_date = today
    /\ vehicles[maints[resp.id].vehicle].status = "available"

\* C15: a retire request on a vehicle that is on_trip fails with VehicleBusy
\* and changes nothing; on a vehicle in any other status it succeeds and
\* changes that vehicle's status to retired, and nothing else.
C15_RetireUnlessOnTrip ==
    [][\A v \in Vehicles :
          (resp'.op = "retire" /\ resp'.id = v)
          => IF vehicles[v].status = "on_trip"
             THEN resp'.err = "VehicleBusy" /\ Unchanged
             ELSE /\ resp'.err = "ok"
                  /\ vehicles' = [vehicles EXCEPT ![v].status = "retired"]
                  /\ UNCHANGED <<drivers, trips, maints>>]_vars

\* C15 witness: a retire request has just been refused with VehicleBusy for a
\* vehicle that is on_trip.
C15_Witness ==
    /\ resp.op = "retire" /\ resp.err = "VehicleBusy"
    /\ vehicles[resp.id].status = "on_trip"

\* C16: retired is terminal: no step changes the status of a vehicle that is
\* retired.
C16_RetiredIsTerminal ==
    [][\A v \in Vehicles :
          vehicles[v].status = "retired" => vehicles'[v].status = "retired"]_vars

\* C17: a suspend request on a driver who is on_duty fails with DriverBusy and
\* changes nothing; on a driver who is off_duty it succeeds and changes that
\* driver's status to suspended, and nothing else.
C17_SuspendUnlessOnDuty ==
    [][\A d \in Drivers :
          (resp'.op = "suspend" /\ resp'.id = d)
          => /\ drivers[d].status = "on_duty"
                  => (resp'.err = "DriverBusy" /\ Unchanged)
             /\ drivers[d].status = "off_duty"
                  => /\ resp'.err = "ok"
                     /\ drivers' = [drivers EXCEPT ![d].status = "suspended"]
                     /\ UNCHANGED <<vehicles, trips, maints>>]_vars

\* C17 witness: a suspend request has just been refused with DriverBusy for a
\* driver who is on_duty.
C17_Witness ==
    /\ resp.op = "suspend" /\ resp.err = "DriverBusy"
    /\ drivers[resp.id].status = "on_duty"

\* C18: a reinstate request always succeeds; it leaves a suspended or off_duty
\* driver off_duty and it leaves a driver who is on_duty on_duty.
C18_ReinstateNeverFromOnDuty ==
    [][\A d \in Drivers :
          (resp'.op = "reinstate" /\ resp'.id = d)
          => /\ resp'.err = "ok"
             /\ drivers[d].status \in {"suspended", "off_duty"}
                  => drivers'[d].status = "off_duty"
             /\ drivers[d].status = "on_duty"
                  => drivers'[d].status = "on_duty"]_vars

\* C19: the stored odometer_km of a vehicle never decreases, in any step of
\* any interleaving of update requests, and an update request answered
\* OutOfRange writes nothing.
C19_OdometerNeverDecreases ==
    [][/\ \A v \in Vehicles : vehicles'[v].odometer_km >= vehicles[v].odometer_km
       /\ (resp'.op = "vehicle_update" /\ resp'.err = "OutOfRange") => Unchanged]_vars

\* C20: in every reachable state every trip's cargo_weight_kg is at most the
\* capacity_kg of the vehicle it references.
C20_CargoWithinCapacity ==
    \A t \in TripIds : trips[t].cargo_weight_kg <= vehicles[trips[t].vehicle].capacity_kg

\* C21: in every reachable state no trip that is draft or dispatched
\* references a driver who is suspended or whose license is expired.
C21_ActiveTripsHaveCompliantDriver ==
    \A t \in TripIds :
        trips[t].status \in {"draft", "dispatched"}
        => /\ drivers[trips[t].driver].status # "suspended"
           /\ ~IsLicenseExpired(drivers[trips[t].driver], today)

\* C22: in every reachable state a trip has a completed_date if and only if
\* its status is completed.
C22_CompletedDateIffCompleted ==
    \A t \in TripIds :
        (trips[t].completed_date # NoDate) <=> (trips[t].status = "completed")

\* C23: every request that creates a trip stores it with status draft and
\* leaves the status of every vehicle and of every driver as it was.
C23_CreatedTripIsDraft ==
    [][(resp'.op = "trip_create" /\ Len(trips') = Len(trips) + 1)
       => /\ trips'[Len(trips')].status = "draft"
          /\ \A v \in Vehicles : vehicles'[v].status = vehicles[v].status
          /\ \A d \in Drivers : drivers'[d].status = drivers[d].status]_vars

OrdinaryOps == {"trip_create", "trip_update", "vehicle_update", "driver_update", "maint_update"}

\* C24: an ordinary create or update of a trip, a vehicle, a driver or a
\* maintenance record never changes the status of a vehicle or of a driver.
C24_StatusOnlyByTransitions ==
    [][resp'.op \in OrdinaryOps
       => /\ \A v \in Vehicles : vehicles'[v].status = vehicles[v].status
          /\ \A d \in Drivers : drivers'[d].status = drivers[d].status]_vars

\* The roles the role gate is meant to let write each kind of record.
Writers(entity) ==
    CASE entity = "users" -> {"manager"}
      [] entity \in {"vehicles", "trips", "fuel"} -> {"manager", "dispatcher"}
      [] entity \in {"drivers", "maintenance"} -> {"manager", "safety_officer"}
      [] entity = "expenses" -> {"manager", "analyst"}
      [] OTHER -> {}

Mutations == Writes \cup {"retire", "suspend", "reinstate", "dispatch", "complete", "cancel"}

\* C25: a User record changes only in a request by a manager; a mutating
\* request on the other records is let through only for a role allowed for
\* that entity; reading drivers, maintenance and expenses is open to every
\* authenticated user; a denied request changes no state.
C25_RoleGate ==
    [][/\ users' # users => gate'.actor = "manager"
       /\ (gate'.allowed /\ gate'.action \in Mutations)
            => gate'.actor \in Writers(gate'.entity)
       /\ (gate'.uid # Anonymous /\ gate'.action \in Reads
             /\ gate'.entity \in {"drivers", "maintenance", "expenses"})
            => gate'.allowed
       /\ ~gate'.allowed
            => UNCHANGED <<users, profiles, vehicles, drivers, trips, maints,
                           fuel_logs, expenses>>]_vars

\* C26: no request sent by a user changes the stored role of that user.
C26_RoleImmutable ==
    [][\A u \in Usernames :
          (gate'.uid = u /\ users[u].exists /\ users'[u].exists)
          => users'[u].role = users[u].role]_vars

\* C27: a registration that succeeds stores the new User; for role driver it
\* also stores a Driver row linked to that user with status off_duty, unless
\* creating that row fails, and then the User is stored and success is
\* reported all the same; for every other role no Driver row is stored. A
\* registration that fails stores nothing.
C27_RegisterDriverTolerant ==
    [][resp'.op = "register"
       => LET name == resp'.id
              row  == [user |-> name, status |-> "off_duty",
                       license_number |-> gate'.arg.license]
          IN  IF resp'.err = "ok"
              THEN /\ ~users[name].exists /\ users'[name].exists
                   /\ \A u \in Usernames \ {name} : users'[u] = users[u]
                   /\ IF users'[name].role = "driver"
                         /\ ~DriverCreateFails(gate'.arg.license, gate'.arg.expiry)
                      THEN profiles' = Append(profiles, row)
                      ELSE profiles' = profiles
              ELSE UNCHANGED <<users, profiles>>]_vars

\* C27 witness: ann registered as a driver and has her Driver row, off_duty;
\* bob has just registered as a driver with the same license_number: the
\* answer is success, bob is stored and has no Driver row.
C27_Witness ==
    /\ resp.op = "register" /\ resp.err = "ok" /\ resp.id = "bob"
    /\ users["bob"].exists /\ users["bob"].role = "driver"
    /\ users["ann"].exists /\ users["ann"].role = "driver"
    /\ \E p \in 1..Len(profiles) :
          profiles[p].user = "ann" /\ profiles[p].status = "off_duty"
    /\ \A p \in 1..Len(profiles) : profiles[p].user # "bob"

\* C28: the stored total_cost of every fuel log is liters * price_per_liter
\* of that same row rounded to two decimal places (the nearest hundredth,
\* either neighbour at an exact half), whatever total_cost the client sent.
C28_TotalCostIsRoundedProduct ==
    \A f \in 1..Len(fuel_logs) :
        100 * fuel_logs[f].total_cost - fuel_logs[f].liters * fuel_logs[f].price_per_liter
            \in -50..50

\* C28 witness: an update that sent a total_cost of its own has just been
\* saved; the stored total_cost is not the one sent, and the product of the
\* row's liters and price_per_liter is not a whole number of hundredths.
C28_Witness ==
    /\ resp.op = "fuel_update" /\ resp.err = "ok"
    /\ gate.arg.total_cost # NoCost
    /\ fuel_logs[resp.id].total_cost # gate.arg.total_cost
    /\ (fuel_logs[resp.id].liters * fuel_logs[resp.id].price_per_liter) % 100 # 0

\* C28 as stated: the stored total_cost is exactly liters * price_per_liter.
C28_AsStated ==
    \A f \in 1..Len(fuel_logs) :
        100 * fuel_logs[f].total_cost = fuel_logs[f].liters * fuel_logs[f].price_per_liter

FuelOps == {"fuel_create", "fuel_update"}
ExpenseOps == {"expense_create", "expense_update"}

\* C29: a permitted expense request that sends amount < 0 is answered
\* NegativeAmount and a permitted fuel request that sends liters <= 0 or
\* price_per_liter <= 0 is answered InvalidQuantity; a request that fails
\* writes nothing; every stored expense has amount >= 0 and every stored fuel
\* log has liters > 0 and price_per_liter > 0.
C29_InvalidAmountsRefused ==
    [][/\ (resp'.op \in ExpenseOps /\ gate'.allowed
             /\ "amount" \in gate'.arg.fields /\ gate'.arg.amount < 0)
            => resp'.err = "NegativeAmount"
       /\ (resp'.op \in FuelOps /\ gate'.allowed
             /\ \/ "liters" \in gate'.arg.fields /\ gate'.arg.liters <= 0
                \/ "price_per_liter" \in gate'.arg.fields /\ gate'.arg.price_per_liter <= 0)
            => resp'.err = "InvalidQuantity"
       /\ (resp'.op \in FuelOps \cup ExpenseOps /\ resp'.err # "ok")
            => UNCHANGED <<fuel_logs, expenses>>
       /\ \A e \in 1..Len(expenses') : expenses'[e].amount >= 0
       /\ \A f \in 1..Len(fuel_logs') :
             fuel_logs'[f].liters > 0 /\ fuel_logs'[f].price_per_liter > 0]_vars

\* C29 witness: an update of a stored fuel log that sent liters = 0 has just
\* been answered InvalidQuantity.
C29_Witness ==
    /\ resp.op = "fuel_update" /\ resp.err = "InvalidQuantity"
    /\ "liters" \in gate.arg.fields /\ gate.arg.liters = 0
    /\ fuel_logs[resp.id].liters > 0

\* C30: the roi reported for a vehicle is 0 when its acquisition_cost is 0;
\* otherwise it is (revenue of that vehicle's completed trips - its fuel
\* total_cost - its maintenance cost) / acquisition_cost * 100 rounded to two
\* decimal places, i.e. in hundredths of a percent it differs from
\* net * 10000 / acquisition_cost by at most one half.
C30_RoiFormula ==
    calc.op = "roi" =>
        LET v       == calc.vehicle
            acq     == calc.acquisition_cost[v]
            revenue == Sum([i \in 1..Len(calc.trips) |->
                              IF calc.trips[i].vehicle = v /\ calc.trips[i].status = "completed"
                              THEN calc.trips[i].revenue ELSE 0])
            fuel    == Sum([i \in 1..Len(calc.fuel_logs) |->
                              IF calc.fuel_logs[i].vehicle = v
                              THEN calc.fuel_logs[i].total_cost ELSE 0])
            maint   == Sum([i \in 1..Len(calc.maintenance) |->
                              IF calc.maintenance[i].vehicle = v
                              THEN calc.maintenance[i].cost ELSE 0])
        IN  IF acq = 0 THEN calc.roi = 0
            ELSE 2 * Abs(calc.roi * acq - (revenue - fuel - maint) * 10000) <= acq

\* C30 witness: a vehicle bought for 10000 with one completed trip of revenue
\* 2000, one trip of revenue 2000 that is not completed and no costs is
\* reported an roi of 20.00 percent.
C30_Witness ==
    /\ calc.op = "roi" /\ calc.roi = 2000
    /\ calc.acquisition_cost[calc.vehicle] = 10000
    /\ \E i, j \in 1..Len(calc.trips) :
          /\ calc.trips[i].vehicle = calc.vehicle /\ calc.trips[i].status = "completed"
          /\ calc.trips[i].revenue = 2000
          /\ calc.trips[j].vehicle = calc.vehicle /\ calc.trips[j].status # "completed"
          /\ calc.trips[j].revenue = 2000
    /\ \A i \in 1..Len(calc.fuel_logs) : calc.fuel_logs[i].total_cost = 0
    /\ \A i \in 1..Len(calc.maintenance) : calc.maintenance[i].cost = 0

\* C31: the efficiency report lists exactly the vehicles with a positive
\* total of logged litres; each row carries the sum of that vehicle's
\* FuelLog.liters, the sum of distance_km of all its trips, and their
\* quotient to two decimal places; rows are in descending order of
\* km_per_liter.
C31_EfficiencyReport ==
    calc.op = "efficiency" =>
        LET liters(v)   == Sum([i \in 1..Len(calc.fuel_logs) |->
                                  IF calc.fuel_logs[i].vehicle = v
                                  THEN calc.fuel_logs[i].liters ELSE 0])
            distance(v) == Sum([i \in 1..Len(calc.trips) |->
                                  IF calc.trips[i].vehicle = v
                                  THEN calc.trips[i].distance_km ELSE 0])
            rows        == calc.report
        IN  /\ {rows[i].vehicle : i \in 1..Len(rows)} = {v \in Vehicles : liters(v) > 0}
            /\ \A i, j \in 1..Len(rows) : rows[i].vehicle = rows[j].vehicle => i = j
            /\ \A i \in 1..Len(rows) :
                  /\ rows[i].total_liters = liters(rows[i].vehicle)
                  /\ rows[i].total_distance_km = distance(rows[i].vehicle)
                  /\ 2 * Abs(rows[i].km_per_liter * liters(rows[i].vehicle)
                             - distance(rows[i].vehicle) * 100)
                        <= liters(rows[i].vehicle)
            /\ \A i, j \in 1..Len(rows) :
                  i < j => rows[i].km_per_liter >= rows[j].km_per_liter

\* C32: a cancel request on a trip that is already completed or already
\* cancelled is answered with an error and leaves every trip, vehicle and
\* driver as it was.
C32_CancelOnlyFromDraftOrDispatched ==
    [][\A t \in TripIds :
          (IsRequest("cancel") /\ resp'.id = t
             /\ trips[t].status \in {"completed", "cancelled"})
          => /\ resp'.err # "ok"
             /\ Unchanged]_vars

\* C33: in every reachable state a vehicle is on_trip if and only if exactly
\* one dispatched trip references it.
C33_OnTripIffOneDispatchedTrip ==
    \A v \in Vehicles :
        (vehicles[v].status = "on_trip") <=> (Cardinality(DispatchedOn(v)) = 1)

\* C34: in every reachable state a driver is on_duty if and only if some
\* dispatched trip references that driver.
C34_OnDutyIffDispatchedTrip ==
    \A d \in Drivers :
        (drivers[d].status = "on_duty")
        <=> (\E t \in TripIds : trips[t].driver = d /\ trips[t].status = "dispatched")

\* C35: in every reachable state each driver is referenced by at most one
\* trip whose status is dispatched.
C35_OneDispatchedTripPerDriver ==
    \A d \in Drivers :
        Cardinality({t \in TripIds : trips[t].driver = d /\ trips[t].status = "dispatched"}) <= 1

\* C36: in every reachable state a vehicle with a maintenance record that is
\* pending or in_progress is in_shop or retired.
C36_OpenMaintenanceKeepsVehicleOff ==
    \A m \in MaintIds :
        maints[m].status \in {"pending", "in_progress"}
        => vehicles[maints[m].vehicle].status \in {"in_shop", "retired"}

\* C37: a complete request and a cancel request on a trip that is dispatched
\* always succeed and leave the trip completed or cancelled.
C37_DispatchedTripCanAlwaysEnd ==
    [][\A t \in TripIds :
          (resp'.op \in {"complete", "cancel"} /\ resp'.id = t
             /\ trips[t].status = "dispatched")
          => /\ resp'.err = "ok"
             /\ trips'[t].status \in {"completed", "cancelled"}]_vars

\* C38: a complete request on a maintenance record that is already completed
\* changes no maintenance record, no vehicle, no trip and no driver.
C38_MaintenanceCompleteIdempotent ==
    [][\A m \in MaintIds :
          (resp'.op = "maint_complete" /\ resp'.id = m
             /\ maints[m].status = "completed")
          => Unchanged]_vars

\* C38 witness: a complete request has just been answered for a record whose
\* vehicle is not available: the record was completed before and the vehicle
\* has been retired or sent on a trip since.
C38_Witness ==
    /\ resp.op = "maint_complete" /\ resp.err = "ok"
    /\ maints[resp.id].status = "completed"
    /\ vehicles[maints[resp.id].vehicle].status \in {"on_trip", "in_shop", "retired"}
====
